---- MODULE Spec2Model ----
(***************************************************************************)
(* Airline-aware shortest flight paths: the airline rule table             *)
(* (airline_rules.py), the route graph builder (graph_builder.py), the     *)
(* two Dijkstra entry points (dijkstra.py) and the cleaning step of the    *)
(* loader (data_loader.py), driven the way main.run drives them.           *)
(*                                                                         *)
(* Python floats are modelled as tagged pairs: <<"fin", n>> for a finite   *)
(* value n (integers stand for kilometres), <<"inf", 0>> for float("inf")  *)
(* and <<"nan", 0>> for not-a-number, with the IEEE comparison rules.      *)
(* Node indices are 0..n-1 as in the code; row i of the dataset is df[i+1].*)
(***************************************************************************)
EXTENDS Integers, Sequences, FiniteSets, TLC

(***************************************************************************)
(* Bounds of the model.                                                    *)
(***************************************************************************)
\* most rows of a raw dataset
MaxRows == 4
\* most iterations of a search's main loop that are followed; a search on
\* non-negative weights needs fewer (IterationsSuffice)
MaxIter == 12
\* most rows of a raw dataset where a search is followed under fairness
MaxFairRows == 3

(***************************************************************************)
(* Floats.                                                                 *)
(***************************************************************************)
Fin(n) == <<"fin", n>>
Inf == <<"inf", 0>>
NaN == <<"nan", 0>>

IsFin(x) == x[1] = "fin"
IsNaN(x) == x[1] = "nan"

\* x + y on floats (no operand is ever -inf)
FAdd(x, y) ==
    IF IsNaN(x) \/ IsNaN(y) THEN NaN
    ELSE IF x = Inf \/ y = Inf THEN Inf
    ELSE Fin(x[2] + y[2])

\* x < y on floats: false as soon as an operand is NaN
FLt(x, y) ==
    IF IsNaN(x) \/ IsNaN(y) THEN FALSE
    ELSE IF x = Inf THEN FALSE
    ELSE IF y = Inf THEN TRUE
    ELSE x[2] < y[2]

\* x > y on floats
FGt(x, y) == FLt(y, x)

\* x == y on floats: NaN equals nothing, itself included
FEq(x, y) == ~IsNaN(x) /\ ~IsNaN(y) /\ x = y

(***************************************************************************)
(* airline_rules.py                                                        *)
(***************************************************************************)
AIRLINE_HUBS ==
    ("Qatar Airways" :> "Doha") @@ ("Emirates" :> "Dubai") @@ ("Etihad" :> "Abu Dhabi")

SUPPORTED_AIRLINES == DOMAIN AIRLINE_HUBS

\* the table with one exclusion set for everyone: the twenty cities all share
AIRLINE_EXCLUDED_CITIES_one_set ==
    [a \in {"Qatar Airways", "Emirates", "Etihad"} |->
        {"Vancouver", "Adelaide", "Wellington", "Perth", "Brisbane",
         "Denver", "Phoenix", "Orlando", "Detroit", "Minneapolis",
         "Cleveland", "St. Louis", "Tampa", "Baltimore", "Pittsburgh",
         "Charlotte", "Austin", "San Diego", "Portland", "Sacramento"}]

AIRLINE_EXCLUDED_CITIES ==
    ("Qatar Airways" :>
        {"Vancouver", "Adelaide", "Wellington", "Perth", "Brisbane",
         "Denver", "Phoenix", "Orlando", "Detroit", "Minneapolis",
         "Cleveland", "St. Louis", "Tampa", "Baltimore", "Pittsburgh",
         "Charlotte", "Austin", "San Diego", "Portland", "Sacramento",
         "Bogota", "Lima", "Santiago", "Mexico City", "Lagos"})
    @@ ("Emirates" :>
        {"Vancouver", "Adelaide", "Wellington", "Perth", "Brisbane",
         "Denver", "Phoenix", "Orlando", "Detroit", "Minneapolis",
         "Cleveland", "St. Louis", "Tampa", "Baltimore", "Pittsburgh",
         "Charlotte", "Austin", "San Diego", "Portland", "Sacramento",
         "Zanzibar", "Kampala", "Lusaka", "Harare",
         "Bogota", "Lima", "Santiago", "Mexico City"})
    @@ ("Etihad" :>
        {"Vancouver", "Adelaide", "Wellington", "Perth", "Brisbane",
         "Denver", "Phoenix", "Orlando", "Detroit", "Minneapolis",
         "Cleveland", "St. Louis", "Tampa", "Baltimore", "Pittsburgh",
         "Charlotte", "Austin", "San Diego", "Portland", "Sacramento",
         "Mexico City", "Bogota", "Lima", "Santiago",
         "Rio de Janeiro", "Sao Paulo", "Buenos Aires",
         "Lagos", "Accra", "Cape Town", "Zanzibar"})

\* airline_serves_city that finds no exclusion set (a key that never matches)
airline_serves_city_no_exclusions(airline, city) ==
    LET hubs == {"Doha", "Dubai", "Abu Dhabi"}
        excluded == {}
    IN  IF city \in hubs THEN TRUE ELSE city \notin excluded

\* airline_serves_city that looks the city up in every airline's exclusion set
airline_serves_city_any_airline(airline, city) ==
    LET hubs == {"Doha", "Dubai", "Abu Dhabi"}
        excluded == UNION {AIRLINE_EXCLUDED_CITIES[a] : a \in DOMAIN AIRLINE_EXCLUDED_CITIES}
    IN  IF city \in hubs THEN TRUE ELSE city \notin excluded

airline_serves_city(airline, city) ==
    LET hubs == {"Doha", "Dubai", "Abu Dhabi"}
        excluded == IF airline \in DOMAIN AIRLINE_EXCLUDED_CITIES
                    THEN AIRLINE_EXCLUDED_CITIES[airline] ELSE {}
    IN  IF city \in hubs THEN TRUE ELSE city \notin excluded

\* the hubs as airline_serves_city lists them (line 50)
Hubs == {"Doha", "Dubai", "Abu Dhabi"}

\* the value get_hub returns for a supported airline (line 59)
get_hub(airline) == AIRLINE_HUBS[airline]

\* how a call of a rule-table function ends: it raises, or returns a value
Raised == [raised |-> TRUE]
Returned(v) == [raised |-> FALSE, value |-> v]

\* a call of airline_serves_city: no path of it raises
airline_serves_city_call(airline, city) == Returned(airline_serves_city(airline, city))

\* a call of get_hub (lines 56-59)
get_hub_call(airline) ==
    IF airline \notin DOMAIN AIRLINE_HUBS THEN Raised ELSE Returned(get_hub(airline))

\* {get_hub(a) for a in airlines}
get_hubs_for_airlines(airlines) ==
    IF \E k \in 1..Len(airlines) : get_hub_call(airlines[k]).raised THEN Raised
    ELSE Returned({get_hub(airlines[k]) : k \in 1..Len(airlines)})

is_hub(city, airlines) ==
    LET hubs == get_hubs_for_airlines(airlines)
    IN  IF hubs.raised THEN Raised ELSE Returned(city \in hubs.value)

operates_route(airline, origin, dst_city, cities) ==
    LET hub == get_hub_call(airline)
    IN  IF hub.raised THEN Raised
        ELSE IF origin \notin cities \/ dst_city \notin cities THEN Returned(FALSE)
        ELSE IF origin = hub.value THEN airline_serves_city_call(airline, dst_city)
        ELSE IF dst_city = hub.value THEN airline_serves_city_call(airline, origin)
        ELSE Returned(FALSE)

RECURSIVE get_route_airline_from(_, _, _, _, _)
\* the loop of get_route_airline from position k of airlines on; Returned("")
\* stands for return None
get_route_airline_from(origin, dst_city, airlines, hubs, k) ==
    IF k > Len(airlines) THEN Returned("")
    ELSE LET air == airlines[k]
             h == get_hub_call(air)
         IN  IF h.raised THEN Raised
             ELSE IF origin = h.value /\ dst_city # h.value
                     /\ airline_serves_city(air, dst_city) THEN Returned(air)
             ELSE IF dst_city = h.value /\ origin # h.value
                     /\ airline_serves_city(air, origin) THEN Returned(air)
             ELSE get_route_airline_from(origin, dst_city, airlines, hubs, k + 1)

get_route_airline(origin, dst_city, airlines, hubs) ==
    get_route_airline_from(origin, dst_city, airlines, hubs, 1)

(***************************************************************************)
(* data_loader.py: rows and the cleaning step.                             *)
(***************************************************************************)
Row(city, country, lat, lon, dDoha, dDubai, dAbuDhabi) ==
    [City |-> city, Country |-> country, Latitude |-> lat, Longitude |-> lon]
    @@ ("Distance to Doha" :> dDoha) @@ ("Distance to Dubai" :> dDubai)
    @@ ("Distance to Abu Dhabi" :> dAbuDhabi)

RECURSIVE Pick(_, _, _)
\* the rows whose positions are in K, in order, from position i on
Pick(rows, K, i) ==
    IF i > Len(rows) THEN <<>>
    ELSE (IF i \in K THEN <<rows[i]>> ELSE <<>>) \o Pick(rows, K, i + 1)

\* dropna(subset=[City, Latitude, Longitude]): City was made a string before,
\* so only a missing Latitude or Longitude drops a row
dropna(rows) ==
    Pick(rows, {i \in 1..Len(rows) :
                   ~IsNaN(rows[i].Latitude) /\ ~IsNaN(rows[i].Longitude)}, 1)

\* drop_duplicates(subset=[City, Country], keep="first")
drop_duplicates(rows) ==
    Pick(rows, {i \in 1..Len(rows) : \A j \in 1..(i - 1) :
                   ~(rows[j].City = rows[i].City /\ rows[j].Country = rows[i].Country)}, 1)

clean_airport_data(raw) == drop_duplicates(dropna(raw))

(***************************************************************************)
(* graph_builder.py                                                        *)
(***************************************************************************)
\* df["City"].tolist()
Cities(d) == [i \in 1..Len(d) |-> d[i].City]

\* {c: i for i, c in enumerate(cities)}: a later row with the same name wins
CityToIndex(cities) ==
    [c \in {cities[i] : i \in 1..Len(cities)} |->
        CHOOSE i \in 0..(Len(cities) - 1) :
            /\ cities[i + 1] = c
            /\ \A j \in 0..(Len(cities) - 1) : cities[j + 1] = c => j <= i]

\* {i: c for i, c in enumerate(cities)}
IndexToCity(cities) == [i \in 0..(Len(cities) - 1) |-> cities[i + 1]]

\* df[df["City"] == a].iloc[0]: the first row named a
FirstRow(d, a) == d[CHOOSE i \in 1..Len(d) : d[i].City = a /\ \A j \in 1..(i - 1) : d[j].City # a]

\* the nested function dist(a, b) of build_graph
build_graph_dist(d, a, b) ==
    IF a = b THEN Fin(0)
    ELSE LET row_a == FirstRow(d, a)
             row_b == FirstRow(d, b)
         IN  IF a = "Doha" THEN row_b["Distance to Doha"]
             ELSE IF a = "Dubai" THEN row_b["Distance to Dubai"]
             ELSE IF a = "Abu Dhabi" THEN row_b["Distance to Abu Dhabi"]
             ELSE IF b = "Doha" THEN row_a["Distance to Doha"]
             ELSE IF b = "Dubai" THEN row_a["Distance to Dubai"]
             ELSE IF b = "Abu Dhabi" THEN row_a["Distance to Abu Dhabi"]
             ELSE Inf

\* adjacency_list[i].append(e)
Append2(adj, i, e) == [adj EXCEPT ![i] = Append(@, e)]

RECURSIVE build_graph_loop_break(_, _, _, _, _, _, _)
\* build_graph_loop that leaves the airline loop (break, not continue) at the
\* first airline whose hub is not in the dataset
build_graph_loop_break(d, airlines, cities, city_to_index, adj, k, i) ==
    IF k > Len(airlines) THEN adj
    ELSE LET airline == airlines[k]
             hub == get_hub(airline)
         IN  IF hub \notin DOMAIN city_to_index THEN adj
             ELSE IF i > Len(cities)
             THEN build_graph_loop_break(d, airlines, cities, city_to_index, adj, k + 1, 1)
             ELSE LET c == cities[i]
                      hi == city_to_index[hub]
                      ci == city_to_index[c]
                      w == build_graph_dist(d, hub, c)
                  IN  IF c = hub \/ ~airline_serves_city(airline, c) \/ FEq(w, Inf)
                      THEN build_graph_loop_break(d, airlines, cities, city_to_index, adj, k, i + 1)
                      ELSE build_graph_loop_break(d, airlines, cities, city_to_index,
                               Append2(Append2(adj, hi, <<ci, w, airline>>),
                                       ci, <<hi, w, airline>>),
                               k, i + 1)

RECURSIVE build_graph_loop_first_row(_, _, _, _, _, _, _)
\* build_graph_loop that takes row 0 for the hub of an airline whose hub is
\* not in the dataset (city_to_index.get(hub, 0)) instead of skipping it
build_graph_loop_first_row(d, airlines, cities, city_to_index, adj, k, i) ==
    IF k > Len(airlines) THEN adj
    ELSE LET airline == airlines[k]
             hub == IF get_hub(airline) \in DOMAIN city_to_index \/ cities = <<>>
                    THEN get_hub(airline) ELSE cities[1]
         IN  IF hub \notin DOMAIN city_to_index \/ i > Len(cities)
             THEN build_graph_loop_first_row(d, airlines, cities, city_to_index, adj, k + 1, 1)
             ELSE LET c == cities[i]
                      hi == city_to_index[hub]
                      ci == city_to_index[c]
                      w == build_graph_dist(d, get_hub(airline), c)
                  IN  IF c = hub \/ ~airline_serves_city(airline, c) \/ FEq(w, Inf)
                      THEN build_graph_loop_first_row(d, airlines, cities, city_to_index, adj, k, i + 1)
                      ELSE build_graph_loop_first_row(d, airlines, cities, city_to_index,
                               Append2(Append2(adj, hi, <<ci, w, airline>>),
                                       ci, <<hi, w, airline>>),
                               k, i + 1)

RECURSIVE build_graph_loop_one_way(_, _, _, _, _, _, _)
\* build_graph_loop without the second append: edges run from the hub only
build_graph_loop_one_way(d, airlines, cities, city_to_index, adj, k, i) ==
    IF k > Len(airlines) THEN adj
    ELSE LET airline == airlines[k]
             hub == get_hub(airline)
         IN  IF hub \notin DOMAIN city_to_index \/ i > Len(cities)
             THEN build_graph_loop_one_way(d, airlines, cities, city_to_index, adj, k + 1, 1)
             ELSE LET c == cities[i]
                      hi == city_to_index[hub]
                      ci == city_to_index[c]
                      w == build_graph_dist(d, hub, c)
                  IN  IF c = hub \/ ~airline_serves_city(airline, c) \/ FEq(w, Inf)
                      THEN build_graph_loop_one_way(d, airlines, cities, city_to_index, adj, k, i + 1)
                      ELSE build_graph_loop_one_way(d, airlines, cities, city_to_index,
                               Append2(adj, hi, <<ci, w, airline>>), k, i + 1)

RECURSIVE build_graph_loop_all_airlines(_, _, _, _, _, _, _)
\* build_graph_loop that runs over every supported airline, not over the selection
build_graph_loop_all_airlines(d, airlines, cities, city_to_index, adj, k, i) ==
    LET every == <<"Qatar Airways", "Emirates", "Etihad">>
    IN  IF k > Len(every) THEN adj
        ELSE LET airline == every[k]
                 hub == get_hub(airline)
             IN  IF hub \notin DOMAIN city_to_index \/ i > Len(cities)
                 THEN build_graph_loop_all_airlines(d, airlines, cities, city_to_index, adj, k + 1, 1)
                 ELSE LET c == cities[i]
                          hi == city_to_index[hub]
                          ci == city_to_index[c]
                          w == build_graph_dist(d, hub, c)
                      IN  IF c = hub \/ ~airline_serves_city(airline, c) \/ FEq(w, Inf)
                          THEN build_graph_loop_all_airlines(d, airlines, cities, city_to_index, adj, k, i + 1)
                          ELSE build_graph_loop_all_airlines(d, airlines, cities, city_to_index,
                                   Append2(Append2(adj, hi, <<ci, w, airline>>),
                                           ci, <<hi, w, airline>>),
                                   k, i + 1)

RECURSIVE build_graph_loop(_, _, _, _, _, _, _)
\* the two nested loops of build_graph (lines 63-78), from airline k and city i on
build_graph_loop(d, airlines, cities, city_to_index, adj, k, i) ==
    IF k > Len(airlines) THEN adj
    ELSE LET airline == airlines[k]
             hub == get_hub(airline)
         IN  IF hub \notin DOMAIN city_to_index \/ i > Len(cities)
             THEN build_graph_loop(d, airlines, cities, city_to_index, adj, k + 1, 1)
             ELSE LET c == cities[i]
                      hi == city_to_index[hub]
                      ci == city_to_index[c]
                      w == build_graph_dist(d, hub, c)
                  IN  IF c = hub \/ ~airline_serves_city(airline, c) \/ FEq(w, Inf)
                      THEN build_graph_loop(d, airlines, cities, city_to_index, adj, k, i + 1)
                      ELSE build_graph_loop(d, airlines, cities, city_to_index,
                               Append2(Append2(adj, hi, <<ci, w, airline>>),
                                       ci, <<hi, w, airline>>),
                               k, i + 1)

\* build_graph that drops the names it does not know instead of raising
build_graph_skip_unsupported(d, airlines) ==
    LET known == Pick(airlines, {k \in 1..Len(airlines) :
                                    airlines[k] \in SUPPORTED_AIRLINES}, 1)
        cities == Cities(d)
        city_to_index == CityToIndex(cities)
        n == Len(cities)
    IN  [error |-> "",
         adjacency_list |->
             build_graph_loop(d, known, cities, city_to_index,
                              [i \in 0..(n - 1) |-> <<>>], 1, 1),
         city_to_index |-> city_to_index,
         index_to_city |-> IndexToCity(cities)]

\* build_graph(df, airlines): the error, or the graph and its two mappings
build_graph(d, airlines) ==
    IF \E k \in 1..Len(airlines) : airlines[k] \notin SUPPORTED_AIRLINES
    THEN [error |-> "ValueError"]
    ELSE LET cities == Cities(d)
             city_to_index == CityToIndex(cities)
             index_to_city == IndexToCity(cities)
             n == Len(cities)
         IN  [error |-> "",
              adjacency_list |->
                  build_graph_loop(d, airlines, cities, city_to_index,
                                   [i \in 0..(n - 1) |-> <<>>], 1, 1),
              city_to_index |-> city_to_index,
              index_to_city |-> index_to_city]

(***************************************************************************)
(* dijkstra.py                                                             *)
(***************************************************************************)
\* what a search gives back: None, a result, or nothing at all because its
\* main loop is still running after MaxIter iterations ("running") or because
\* the loop that walks the predecessors never ends ("hang")
None == [tag |-> "None"]
Running == [tag |-> "running"]
Hang == [tag |-> "hang"]

\* prev[i] = None
NoPrev == <<>>

\* heap entries are (distance, node) tuples compared as Python compares tuples.
\* An entry is pushed only after dist[v] strictly dropped to its distance, so
\* no entry is pushed twice and the heap is modelled as a set of entries.
TupleLe(e, f) == FLt(e[1], f[1]) \/ (e[1] = f[1] /\ e[2] <= f[2])

\* heapq.heappop: the least entry
heappop(heap) == CHOOSE e \in heap : \A f \in heap : TupleLe(e, f)

\* search_init without dist[src] = 0.0
search_init_no_zero(n, src) ==
    [dist |-> [i \in 0..(n - 1) |-> Inf],
     prev |-> [i \in 0..(n - 1) |-> NoPrev],
     heap |-> {<<Fin(0), src>>},
     brk  |-> FALSE,
     iters |-> 0,
     relaxed |-> [i \in 0..(n - 1) |-> 0]]

\* state of a search before the main loop (lines 42-50 and 106-110); iters
\* counts the iterations of the loop and relaxed[u] the times the for loop
\* over the edges of u was entered
search_init(n, src) ==
    [dist |-> [i \in 0..(n - 1) |-> IF i = src THEN Fin(0) ELSE Inf],
     prev |-> [i \in 0..(n - 1) |-> NoPrev],
     heap |-> {<<Fin(0), src>>},
     brk  |-> FALSE,
     iters |-> 0,
     relaxed |-> [i \in 0..(n - 1) |-> 0]]

RECURSIVE relax_aware_edge_only(_, _, _, _, _)
\* relax_aware with new_d = w: the distance of u is not added
relax_aware_edge_only(edges, k, u, d, s) ==
    IF k > Len(edges) THEN s
    ELSE LET v == edges[k][1]
             w == edges[k][2]
             airline == edges[k][3]
             new_d == w
         IN  IF FLt(new_d, s.dist[v])
             THEN relax_aware_edge_only(edges, k + 1, u, d,
                      [s EXCEPT !.dist[v] = new_d,
                                !.prev[v] = <<u, airline>>,
                                !.heap = @ \cup {<<new_d, v>>}])
             ELSE relax_aware_edge_only(edges, k + 1, u, d, s)

RECURSIVE relax_aware_keep_prev(_, _, _, _, _)
\* relax_aware that records a predecessor only for a node that has none yet
relax_aware_keep_prev(edges, k, u, d, s) ==
    IF k > Len(edges) THEN s
    ELSE LET v == edges[k][1]
             w == edges[k][2]
             airline == edges[k][3]
             new_d == FAdd(d, w)
         IN  IF FLt(new_d, s.dist[v])
             THEN relax_aware_keep_prev(edges, k + 1, u, d,
                      [s EXCEPT !.dist[v] = new_d,
                                !.prev[v] = IF @ = NoPrev THEN <<u, airline>> ELSE @,
                                !.heap = @ \cup {<<new_d, v>>}])
             ELSE relax_aware_keep_prev(edges, k + 1, u, d, s)

RECURSIVE relax_aware_first_label(_, _, _, _, _)
\* relax_aware that records the airline of the first edge of u, not of this edge
relax_aware_first_label(edges, k, u, d, s) ==
    IF k > Len(edges) THEN s
    ELSE LET v == edges[k][1]
             w == edges[k][2]
             airline == edges[1][3]
             new_d == FAdd(d, w)
         IN  IF FLt(new_d, s.dist[v])
             THEN relax_aware_first_label(edges, k + 1, u, d,
                      [s EXCEPT !.dist[v] = new_d,
                                !.prev[v] = <<u, airline>>,
                                !.heap = @ \cup {<<new_d, v>>}])
             ELSE relax_aware_first_label(edges, k + 1, u, d, s)

RECURSIVE relax_aware_prev_always(_, _, _, _, _)
\* relax_aware with prev[v] = (u, airline) outside the if: written for every edge
relax_aware_prev_always(edges, k, u, d, s) ==
    IF k > Len(edges) THEN s
    ELSE LET v == edges[k][1]
             w == edges[k][2]
             airline == edges[k][3]
             new_d == FAdd(d, w)
         IN  IF FLt(new_d, s.dist[v])
             THEN relax_aware_prev_always(edges, k + 1, u, d,
                      [s EXCEPT !.dist[v] = new_d,
                                !.prev[v] = <<u, airline>>,
                                !.heap = @ \cup {<<new_d, v>>}])
             ELSE relax_aware_prev_always(edges, k + 1, u, d,
                      [s EXCEPT !.prev[v] = <<u, airline>>])

RECURSIVE relax_aware(_, _, _, _, _)
\* for v, w, airline in adjacency_list[u] (dijkstra_airline_aware), from edge k on
relax_aware(edges, k, u, d, s) ==
    IF k > Len(edges) THEN s
    ELSE LET v == edges[k][1]
             w == edges[k][2]
             airline == edges[k][3]
             new_d == FAdd(d, w)
         IN  IF FLt(new_d, s.dist[v])
             THEN relax_aware(edges, k + 1, u, d,
                      [s EXCEPT !.dist[v] = new_d,
                                !.prev[v] = <<u, airline>>,
                                !.heap = @ \cup {<<new_d, v>>}])
             ELSE relax_aware(edges, k + 1, u, d, s)

\* aware_iter that reads the least entry and leaves it in the heap
aware_iter_no_pop(adj, dst, s) ==
    LET e == heappop(s.heap)
        d == e[1]
        u == e[2]
        popped == [s EXCEPT !.iters = @ + 1]
    IN  IF FGt(d, s.dist[u]) THEN popped
        ELSE IF u = dst THEN [popped EXCEPT !.brk = TRUE]
        ELSE relax_aware(adj[u], 1, u, d, [popped EXCEPT !.relaxed[u] = @ + 1])

\* one iteration of the main loop of dijkstra_airline_aware
aware_iter(adj, dst, s) ==
    LET e == heappop(s.heap)
        d == e[1]
        u == e[2]
        popped == [s EXCEPT !.heap = @ \ {e}, !.iters = @ + 1]
    IN  IF FGt(d, s.dist[u]) THEN popped
        ELSE IF u = dst THEN [popped EXCEPT !.brk = TRUE]
        ELSE relax_aware(adj[u], 1, u, d, [popped EXCEPT !.relaxed[u] = @ + 1])

RECURSIVE aware_loop(_, _, _)
\* while heap: ... of dijkstra_airline_aware, followed for MaxIter iterations
aware_loop(adj, dst, s) ==
    IF s.heap = {} \/ s.brk \/ s.iters >= MaxIter THEN s
    ELSE aware_loop(adj, dst, aware_iter(adj, dst, s))

RECURSIVE relax_standard_non_strict(_, _, _, _, _)
\* relax_standard with new_d <= dist[v]: a tie replaces the predecessor
relax_standard_non_strict(edges, k, u, d, s) ==
    IF k > Len(edges) THEN s
    ELSE LET v == edges[k][1]
             w == edges[k][2]
             new_d == FAdd(d, w)
         IN  IF FLt(new_d, s.dist[v]) \/ FEq(new_d, s.dist[v])
             THEN relax_standard_non_strict(edges, k + 1, u, d,
                      [s EXCEPT !.dist[v] = new_d,
                                !.prev[v] = <<u>>,
                                !.heap = @ \cup {<<new_d, v>>}])
             ELSE relax_standard_non_strict(edges, k + 1, u, d, s)

RECURSIVE relax_standard(_, _, _, _, _)
\* for v, w, _ in adjacency_list[u] (dijkstra_standard), from edge k on
relax_standard(edges, k, u, d, s) ==
    IF k > Len(edges) THEN s
    ELSE LET v == edges[k][1]
             w == edges[k][2]
             new_d == FAdd(d, w)
         IN  IF FLt(new_d, s.dist[v])
             THEN relax_standard(edges, k + 1, u, d,
                      [s EXCEPT !.dist[v] = new_d,
                                !.prev[v] = <<u>>,
                                !.heap = @ \cup {<<new_d, v>>}])
             ELSE relax_standard(edges, k + 1, u, d, s)

\* standard_iter without the test d > dist[u]: a stale entry is expanded too
standard_iter_no_stale_test(adj, dst, s) ==
    LET e == heappop(s.heap)
        d == e[1]
        u == e[2]
        popped == [s EXCEPT !.heap = @ \ {e}, !.iters = @ + 1]
    IN  IF u = dst THEN [popped EXCEPT !.brk = TRUE]
        ELSE relax_standard(adj[u], 1, u, d, [popped EXCEPT !.relaxed[u] = @ + 1])

\* one iteration of the main loop of dijkstra_standard
standard_iter(adj, dst, s) ==
    LET e == heappop(s.heap)
        d == e[1]
        u == e[2]
        popped == [s EXCEPT !.heap = @ \ {e}, !.iters = @ + 1]
    IN  IF FGt(d, s.dist[u]) THEN popped
        ELSE IF u = dst THEN [popped EXCEPT !.brk = TRUE]
        ELSE relax_standard(adj[u], 1, u, d, [popped EXCEPT !.relaxed[u] = @ + 1])

RECURSIVE standard_loop(_, _, _)
\* while heap: ... of dijkstra_standard, followed for MaxIter iterations
standard_loop(adj, dst, s) ==
    IF s.heap = {} \/ s.brk \/ s.iters >= MaxIter THEN s
    ELSE standard_loop(adj, dst, standard_iter(adj, dst, s))

\* the main loop was left (it is not merely out of the iterations followed)
LoopLeft(s) == s.heap = {} \/ s.brk

RECURSIVE walk_back_until_source(_, _, _, _)
\* walk_back that stops at the node without predecessor before appending it
walk_back_until_source(prev, cur, acc, n) ==
    IF Len(acc) >= n THEN <<-1>>
    ELSE IF prev[cur] = NoPrev THEN acc
    ELSE walk_back_until_source(prev, prev[cur][1], Append(acc, cur), n)

RECURSIVE walk_back(_, _, _, _)
\* the while loop that follows prev from cur (lines 70-75 and 130-132): the
\* nodes in visiting order, or <<-1>> when it visits more nodes than there
\* are, which is when the loop of the code never ends
walk_back(prev, cur, acc, n) ==
    IF Len(acc) >= n THEN <<-1>>
    ELSE IF prev[cur] = NoPrev THEN Append(acc, cur)
    ELSE walk_back(prev, prev[cur][1], Append(acc, cur), n)

\* path_indices.reverse()
Reverse(s) == [i \in 1..Len(s) |-> s[Len(s) + 1 - i]]

\* what dijkstra_airline_aware returns after its main loop (lines 65-85)
aware_return(i2c_, dst, s) ==
    IF FEq(s.dist[dst], Inf) THEN None
    ELSE LET back == walk_back(s.prev, dst, <<>>, Cardinality(DOMAIN s.prev))
         IN  IF back = <<-1>> THEN Hang
             ELSE LET path_indices == Reverse(back)
                  IN  [tag |-> "ok",
                       km |-> s.dist[dst],
                       path |-> [k \in 1..Len(path_indices) |-> i2c_[path_indices[k]]],
                       segments |-> [k \in 1..(Len(path_indices) - 1) |->
                           <<i2c_[path_indices[k]], i2c_[path_indices[k + 1]],
                             s.prev[path_indices[k + 1]][2]>>]]

\* what dijkstra_standard returns after its main loop (lines 125-135)
standard_return(i2c_, dst, s) ==
    IF FEq(s.dist[dst], Inf) THEN None
    ELSE LET back == walk_back(s.prev, dst, <<>>, Cardinality(DOMAIN s.prev))
         IN  IF back = <<-1>> THEN Hang
             ELSE LET path_indices == Reverse(back)
                  IN  [tag |-> "ok",
                       km |-> s.dist[dst],
                       path |-> [k \in 1..Len(path_indices) |-> i2c_[path_indices[k]]]]

\* dijkstra_airline_aware(adjacency_list, city_to_index, index_to_city, source,
\* dest, airlines); the code never reads its airlines argument
dijkstra_airline_aware(adj, c2i_, i2c_, src_name, dst_name, airl) ==
    IF src_name \notin DOMAIN c2i_ \/ dst_name \notin DOMAIN c2i_ THEN None
    ELSE LET src == c2i_[src_name]
             dst == c2i_[dst_name]
             n == Cardinality(DOMAIN adj)
             s == aware_loop(adj, dst, search_init(n, src))
         IN  IF ~LoopLeft(s) THEN Running ELSE aware_return(i2c_, dst, s)

\* dijkstra_standard(adjacency_list, city_to_index, index_to_city, source, dest)
dijkstra_standard(adj, c2i_, i2c_, src_name, dst_name) ==
    IF src_name \notin DOMAIN c2i_ \/ dst_name \notin DOMAIN c2i_ THEN None
    ELSE LET src == c2i_[src_name]
             dst == c2i_[dst_name]
             n == Cardinality(DOMAIN adj)
             s == standard_loop(adj, dst, search_init(n, src))
         IN  IF ~LoopLeft(s) THEN Running ELSE standard_return(i2c_, dst, s)

(***************************************************************************)
(* Inputs.                                                                 *)
(***************************************************************************)
\* rows a raw dataset is made of, in file order: the three hubs, a city every
\* airline serves, a second London in another country, a city only Emirates
\* serves, a row without coordinates, and distance cells that are missing,
\* infinite or negative
RowPool ==
    << Row("Doha", "Qatar", Fin(25), Fin(51), Fin(0), Fin(2), Fin(6)),
       Row("London", "United Kingdom", Fin(51), Fin(0), Fin(7), Fin(1), Fin(2)),
       Row("Dubai", "United Arab Emirates", Fin(25), Fin(55), Fin(3), Fin(0), Fin(1)),
       Row("Lagos", "Nigeria", Fin(6), Fin(3), Fin(4), Fin(5), Fin(9)),
       Row("Paris", "France", NaN, Fin(2), Fin(5), Fin(5), Fin(5)),
       Row("Abu Dhabi", "United Arab Emirates", Fin(24), Fin(54), Fin(6), Fin(1), Fin(0)),
       Row("Mumbai", "India", Fin(19), Fin(72), NaN, Fin(3), Inf),
       Row("London", "Canada", Fin(42), Fin(-81), Fin(1), Fin(9), Fin(9)),
       Row("Muscat", "Oman", Fin(23), Fin(58), Fin(-1), Fin(1), Fin(-3)) >>

\* the rows of rows, last first
BottomUp(rows) == [i \in 1..Len(rows) |-> rows[Len(rows) + 1 - i]]

\* raw datasets: at most MaxRows rows of the pool, in file order or reversed
RawDatasets ==
    LET Ks == {K \in SUBSET (1..Len(RowPool)) : Cardinality(K) <= MaxRows}
    IN  {Pick(RowPool, K, 1) : K \in Ks} \cup {BottomUp(Pick(RowPool, K, 1)) : K \in Ks}

\* the sequences without repetition over S
Lists(S) ==
    UNION {{s \in [1..k -> S] : \A i, j \in 1..k : i # j => s[i] # s[j]} :
              k \in 0..Cardinality(S)}

AirlineNames == SUPPORTED_AIRLINES \cup {"Lufthansa"}

\* airline selections: every list without repetition, and the doubled names
AirlineLists == Lists(AirlineNames) \cup {<<a, a>> : a \in SUPPORTED_AIRLINES}

\* list(SUPPORTED_AIRLINES): the order of a frozenset is not fixed
SupportedLists == {s \in Lists(SUPPORTED_AIRLINES) : Len(s) = Cardinality(SUPPORTED_AIRLINES)}

\* city names a caller asks for: those of the dataset and one that is in none
CityNames(d) == {d[i].City : i \in 1..Len(d)} \cup {"Atlantis"}

(***************************************************************************)
(* State.                                                                  *)
(***************************************************************************)
VARIABLES
    df,              \* the cleaned dataset
    pc,              \* where the run is
    airlines,        \* the airline selection
    adjacency_list, city_to_index, index_to_city,   \* build_graph(df, airlines)
    source, dest,
    result,          \* what dijkstra_airline_aware returned on that graph
    std,             \* what dijkstra_standard returned on that graph
    std_full,        \* what dijkstra_standard returned on the graph of all airlines
    rule_call,       \* the last call of a rule-table function and how it ended
    search_airlines, \* the airlines argument of a search called apart from main.run
    search,          \* the locals of a search that is followed step by step
    queries          \* the locals of the queries that run side by side on df

vars == <<df, pc, airlines, adjacency_list, city_to_index, index_to_city,
          source, dest, result, std, std_full, rule_call, search_airlines, search,
          queries>>

\* the state outside a run of main.run
aside == <<rule_call, search_airlines, search, queries>>

NoSearch == [dist |-> <<>>, prev |-> <<>>, heap |-> {}, brk |-> FALSE, iters |-> 0,
             relaxed |-> <<>>]

NoCall == [op |-> "none"]

Unset == [tag |-> "unset"]

Init ==
    /\ \E raw \in RawDatasets : df = clean_airport_data(raw)
    /\ pc = "loaded"
    /\ airlines = <<>>
    /\ adjacency_list = <<>> /\ city_to_index = <<>> /\ index_to_city = <<>>
    /\ source = "" /\ dest = ""
    /\ result = Unset
    /\ std = Unset
    /\ std_full = Unset
    /\ rule_call = NoCall
    /\ search_airlines = <<>>
    /\ search = NoSearch
    /\ queries = <<>>

\* adj, city_to_idx, idx_to_city, _ = build_graph(df, airlines)   (main.py:104)
BuildGraph ==
    /\ pc = "loaded"
    /\ \E a \in AirlineLists :
        LET g == build_graph(df, a)
        IN  /\ airlines' = a
            /\ IF g.error # ""
               THEN /\ pc' = "raised"
                    /\ UNCHANGED <<adjacency_list, city_to_index, index_to_city>>
               ELSE /\ pc' = "built"
                    /\ adjacency_list' = g.adjacency_list
                    /\ city_to_index' = g.city_to_index
                    /\ index_to_city' = g.index_to_city
    /\ UNCHANGED <<df, source, dest, result, std, std_full>>
    /\ UNCHANGED aside

\* result = dijkstra_airline_aware(adj, city_to_idx, idx_to_city, source, dest,
\* airlines)   (main.py:105)
Aware ==
    /\ pc = "built"
    /\ \E s \in CityNames(df), t \in CityNames(df) :
        /\ source' = s
        /\ dest' = t
        /\ result' = dijkstra_airline_aware(adjacency_list, city_to_index,
                                             index_to_city, s, t, airlines)
    /\ pc' = "aware_done"
    /\ UNCHANGED <<df, airlines, adjacency_list, city_to_index, index_to_city,
                   std, std_full>>
    /\ UNCHANGED aside

\* dijkstra_standard called on the graph of the selection
Standard ==
    /\ pc = "built"
    /\ \E s \in CityNames(df), t \in CityNames(df) :
        /\ source' = s
        /\ dest' = t
        /\ std' = dijkstra_standard(adjacency_list, city_to_index, index_to_city, s, t)
    /\ pc' = "standard_done"
    /\ UNCHANGED <<df, airlines, adjacency_list, city_to_index, index_to_city,
                   result, std_full>>
    /\ UNCHANGED aside

\* the comparison of main.run (main.py:126-128): the graph of all airlines is
\* built and dijkstra_standard runs on it
Compare ==
    /\ pc = "aware_done"
    /\ result.tag = "ok"
    /\ {airlines[k] : k \in 1..Len(airlines)} # SUPPORTED_AIRLINES
    /\ \E a \in SupportedLists :
        LET g == build_graph(df, a)
        IN  std_full' = dijkstra_standard(g.adjacency_list, g.city_to_index,
                                          g.index_to_city, source, dest)
    /\ pc' = "compared"
    /\ UNCHANGED <<df, airlines, adjacency_list, city_to_index, index_to_city,
                   source, dest, result, std>>
    /\ UNCHANGED aside

Next ==
    \/ BuildGraph
    \/ Aware
    \/ Standard
    \/ Compare

Spec == Init /\ [][Next]_vars

(***************************************************************************)
(* dijkstra_airline_aware called by a caller of its own, who passes any    *)
(* list of supported airlines as the airlines argument, whatever the       *)
(* selection the graph was built with.                                     *)
(***************************************************************************)
\* the airlines arguments: one list for every set of supported airlines
ArgLists ==
    {Pick(<<"Qatar Airways", "Emirates", "Etihad">>, K, 1) : K \in SUBSET (1..3)}

AwareWith ==
    /\ pc = "built"
    /\ \E s \in CityNames(df), t \in CityNames(df), airl \in ArgLists :
        /\ source' = s
        /\ dest' = t
        /\ search_airlines' = airl
        /\ result' = dijkstra_airline_aware(adjacency_list, city_to_index,
                                             index_to_city, s, t, airl)
    /\ pc' = "aware_done"
    /\ UNCHANGED <<df, airlines, adjacency_list, city_to_index, index_to_city,
                   std, std_full, rule_call, search, queries>>

ArgNext ==
    \/ BuildGraph
    \/ AwareWith

ArgSpec == Init /\ [][ArgNext]_vars

(***************************************************************************)
(* Both searches on one graph: after dijkstra_airline_aware, a caller runs *)
(* dijkstra_standard on the same graph, from the same source to the same   *)
(* destination.                                                            *)
(***************************************************************************)
StandardSame ==
    /\ pc = "aware_done"
    /\ std' = dijkstra_standard(adjacency_list, city_to_index, index_to_city,
                                 source, dest)
    /\ pc' = "both_done"
    /\ UNCHANGED <<df, airlines, adjacency_list, city_to_index, index_to_city,
                   source, dest, result, std_full>>
    /\ UNCHANGED aside

PairNext ==
    \/ BuildGraph
    \/ Aware
    \/ StandardSame

PairSpec == Init /\ [][PairNext]_vars

(***************************************************************************)
(* A search followed step by step: one action per iteration of its main    *)
(* loop, one for what follows the loop. The graph is the one build_graph   *)
(* returned for a dataset and a selection.                                 *)
(***************************************************************************)
\* raw datasets in file order
StepDatasets ==
    {Pick(RowPool, K, 1) : K \in {K \in SUBSET (1..Len(RowPool)) : Cardinality(K) <= MaxRows}}

\* raw datasets in file order, for the searches followed under fairness
FairDatasets ==
    {Pick(RowPool, K, 1) : K \in {K \in SUBSET (1..Len(RowPool)) : Cardinality(K) <= MaxFairRows}}

\* the state after build_graph, for a dataset of the given ones
StepInitOn(datasets) ==
    /\ \E raw \in datasets, a \in ArgLists :
        LET g == build_graph(clean_airport_data(raw), a)
        IN  /\ df = clean_airport_data(raw)
            /\ airlines = a
            /\ adjacency_list = g.adjacency_list
            /\ city_to_index = g.city_to_index
            /\ index_to_city = g.index_to_city
    /\ pc = "built"
    /\ source = "" /\ dest = ""
    /\ result = Unset /\ std = Unset /\ std_full = Unset
    /\ rule_call = NoCall
    /\ search_airlines = <<>>
    /\ search = NoSearch
    /\ queries = <<>>

StepInit == StepInitOn(StepDatasets)

GraphUntouched ==
    UNCHANGED <<df, airlines, adjacency_list, city_to_index, index_to_city,
                std_full, rule_call, search_airlines, queries>>

\* dijkstra_airline_aware up to its main loop (lines 35-50)
AwareStart ==
    /\ pc = "built"
    /\ \E s \in CityNames(df), t \in CityNames(df) :
        /\ source' = s
        /\ dest' = t
        /\ IF s \notin DOMAIN city_to_index \/ t \notin DOMAIN city_to_index
           THEN /\ result' = None
                /\ pc' = "aware_done"
                /\ search' = search
           ELSE /\ result' = result
                /\ pc' = "aware_loop"
                /\ search' = search_init(Cardinality(DOMAIN adjacency_list), city_to_index[s])
    /\ UNCHANGED std
    /\ GraphUntouched

\* one iteration of while heap (lines 52-63)
AwareIter ==
    /\ pc = "aware_loop"
    /\ ~LoopLeft(search)
    /\ search.iters < MaxIter
    /\ search' = aware_iter(adjacency_list, city_to_index[dest], search)
    /\ UNCHANGED <<pc, source, dest, result, std>>
    /\ GraphUntouched

\* lines 65-85: None, or the walk along prev and the result; a walk that
\* never ends leaves the call in "aware_walk" for good
AwareReturn ==
    /\ pc = "aware_loop"
    /\ LoopLeft(search)
    /\ LET r == aware_return(index_to_city, city_to_index[dest], search)
       IN  IF r = Hang
           THEN pc' = "aware_walk" /\ result' = result
           ELSE pc' = "aware_done" /\ result' = r
    /\ UNCHANGED <<source, dest, std, search>>
    /\ GraphUntouched

\* dijkstra_standard up to its main loop (lines 100-110)
StandardStart ==
    /\ pc = "built"
    /\ \E s \in CityNames(df), t \in CityNames(df) :
        /\ source' = s
        /\ dest' = t
        /\ IF s \notin DOMAIN city_to_index \/ t \notin DOMAIN city_to_index
           THEN /\ std' = None
                /\ pc' = "standard_done"
                /\ search' = search
           ELSE /\ std' = std
                /\ pc' = "standard_loop"
                /\ search' = search_init(Cardinality(DOMAIN adjacency_list), city_to_index[s])
    /\ UNCHANGED result
    /\ GraphUntouched

\* one iteration of while heap (lines 112-123)
StandardIter ==
    /\ pc = "standard_loop"
    /\ ~LoopLeft(search)
    /\ search.iters < MaxIter
    /\ search' = standard_iter(adjacency_list, city_to_index[dest], search)
    /\ UNCHANGED <<pc, source, dest, result, std>>
    /\ GraphUntouched

\* lines 125-135
StandardReturn ==
    /\ pc = "standard_loop"
    /\ LoopLeft(search)
    /\ LET r == standard_return(index_to_city, city_to_index[dest], search)
       IN  IF r = Hang
           THEN pc' = "standard_walk" /\ std' = std
           ELSE pc' = "standard_done" /\ std' = r
    /\ UNCHANGED <<source, dest, result, search>>
    /\ GraphUntouched

StepNext ==
    \/ AwareStart
    \/ AwareIter
    \/ AwareReturn
    \/ StandardStart
    \/ StandardIter
    \/ StandardReturn

StepSpec == StepInit /\ [][StepNext]_vars

\* a call that has begun goes on: the interpreter runs the next statement
\* (at most one of its steps is enabled at a time)
SearchGoesOn ==
    \/ AwareIter
    \/ AwareReturn
    \/ StandardIter
    \/ StandardReturn

StepFairSpec == StepInitOn(FairDatasets) /\ [][StepNext]_vars /\ WF_vars(SearchGoesOn)

(***************************************************************************)
(* Two queries side by side on one dataset, as two requests of a serving   *)
(* wrapper: each builds its own graph, airline by airline, and runs one of *)
(* the searches, iteration by iteration; their steps interleave freely.    *)
(* Everything but df is local to a query.                                  *)
(***************************************************************************)
Queries == {1, 2}

\* the datasets the queries share (rows of the pool, by position): one with
\* weights >= 0, one with two Londons, one with negative distances
ConcDatasets == {Pick(RowPool, K, 1) : K \in {{1, 2, 3}, {1, 2, 8}, {1, 3, 9}}}

\* the selections of the queries
ConcLists == {<<"Qatar Airways">>, <<"Emirates", "Qatar Airways">>,
              <<"Qatar Airways", "Lufthansa">>}

\* the locals of a query before its first step
NewQuery(fn, a, s, t) ==
    [pc |-> "start", fn |-> fn, airlines |-> a, source |-> s, dest |-> t, k |-> 0,
     adjacency_list |-> <<>>, city_to_index |-> <<>>, index_to_city |-> <<>>,
     search |-> NoSearch, result |-> Unset]

ConcInit ==
    /\ \E raw \in ConcDatasets :
        /\ df = clean_airport_data(raw)
        /\ queries \in [Queries -> {NewQuery(fn, a, s, t) :
                                       fn \in {"aware", "standard"}, a \in ConcLists,
                                       s \in CityNames(df), t \in CityNames(df)}]
    /\ pc = "serving"
    /\ airlines = <<>>
    /\ adjacency_list = <<>> /\ city_to_index = <<>> /\ index_to_city = <<>>
    /\ source = "" /\ dest = ""
    /\ result = Unset /\ std = Unset /\ std_full = Unset
    /\ rule_call = NoCall
    /\ search_airlines = <<>>
    /\ search = NoSearch

\* build_graph up to its loops (lines 31-38 and 61)
build_start(d, q) ==
    IF \E k \in 1..Len(q.airlines) : q.airlines[k] \notin SUPPORTED_AIRLINES
    THEN [q EXCEPT !.pc = "raised"]
    ELSE [q EXCEPT !.pc = IF q.airlines = <<>> THEN "built" ELSE "build",
                   !.k = 1,
                   !.city_to_index = CityToIndex(Cities(d)),
                   !.index_to_city = IndexToCity(Cities(d)),
                   !.adjacency_list = [i \in 0..(Len(d) - 1) |-> <<>>]]

\* one pass of for airline in airlines (lines 63-78), and the return after
\* the last one
build_airline(d, q) ==
    [q EXCEPT !.adjacency_list =
                  build_graph_loop(d, <<q.airlines[q.k]>>, Cities(d), q.city_to_index,
                                   @, 1, 1),
              !.k = @ + 1,
              !.pc = IF q.k = Len(q.airlines) THEN "built" ELSE "build"]

\* a search up to its main loop
search_start(q) ==
    IF q.source \notin DOMAIN q.city_to_index \/ q.dest \notin DOMAIN q.city_to_index
    THEN [q EXCEPT !.pc = "done", !.result = None]
    ELSE [q EXCEPT !.pc = "loop",
                   !.search = search_init(Cardinality(DOMAIN q.adjacency_list),
                                          q.city_to_index[q.source])]

\* query_iter with dist, prev and heap kept where every running search finds them
query_iter_shared_locals(qs, q) ==
    LET s == IF qs[q].fn = "aware"
             THEN aware_iter(qs[q].adjacency_list, qs[q].city_to_index[qs[q].dest],
                             qs[q].search)
             ELSE standard_iter(qs[q].adjacency_list, qs[q].city_to_index[qs[q].dest],
                                qs[q].search)
    IN  [p \in DOMAIN qs |->
            IF p = q \/ (qs[p].pc = "loop" /\ DOMAIN qs[p].search.dist = DOMAIN s.dist)
            THEN [qs[p] EXCEPT !.search = s] ELSE qs[p]]

\* one iteration of the main loop of query q's search: it works on the
\* lists and the heap the call created for itself
query_iter(qs, q) ==
    [qs EXCEPT ![q].search =
        IF qs[q].fn = "aware"
        THEN aware_iter(qs[q].adjacency_list, qs[q].city_to_index[qs[q].dest], @)
        ELSE standard_iter(qs[q].adjacency_list, qs[q].city_to_index[qs[q].dest], @)]

\* what follows the main loop
search_return(q) ==
    LET r == IF q.fn = "aware"
             THEN aware_return(q.index_to_city, q.city_to_index[q.dest], q.search)
             ELSE standard_return(q.index_to_city, q.city_to_index[q.dest], q.search)
    IN  IF r = Hang THEN [q EXCEPT !.pc = "walk"]
        ELSE [q EXCEPT !.pc = "done", !.result = r]

RunAside ==
    UNCHANGED <<df, pc, airlines, adjacency_list, city_to_index, index_to_city,
                source, dest, result, std, std_full, rule_call, search_airlines, search>>

QueryBuildStart ==
    /\ \E q \in Queries :
        /\ queries[q].pc = "start"
        /\ queries' = [queries EXCEPT ![q] = build_start(df, @)]
    /\ RunAside

QueryBuildAirline ==
    /\ \E q \in Queries :
        /\ queries[q].pc = "build"
        /\ queries' = [queries EXCEPT ![q] = build_airline(df, @)]
    /\ RunAside

QuerySearchStart ==
    /\ \E q \in Queries :
        /\ queries[q].pc = "built"
        /\ queries' = [queries EXCEPT ![q] = search_start(@)]
    /\ RunAside

QueryIter ==
    /\ \E q \in Queries :
        /\ queries[q].pc = "loop"
        /\ ~LoopLeft(queries[q].search)
        /\ queries[q].search.iters < MaxIter
        /\ queries' = query_iter(queries, q)
    /\ RunAside

QuerySearchReturn ==
    /\ \E q \in Queries :
        /\ queries[q].pc = "loop"
        /\ LoopLeft(queries[q].search)
        /\ queries' = [queries EXCEPT ![q] = search_return(@)]
    /\ RunAside

ConcNext ==
    \/ QueryBuildStart
    \/ QueryBuildAirline
    \/ QuerySearchStart
    \/ QueryIter
    \/ QuerySearchReturn

ConcSpec == ConcInit /\ [][ConcNext]_vars

(***************************************************************************)
(* The rule table called on its own: one call of any function of           *)
(* airline_rules.py, with any arguments.                                   *)
(***************************************************************************)
\* city names of the calls: the hubs, every excluded city, two cities no
\* airline excludes
RuleCities ==
    {"Doha", "Dubai", "Abu Dhabi", "London", "Atlantis"}
        \cup UNION {AIRLINE_EXCLUDED_CITIES[a] : a \in DOMAIN AIRLINE_EXCLUDED_CITIES}

\* the origins and destinations of the route calls
RouteCities == {"Doha", "Dubai", "London", "Lagos", "Zanzibar"}

RulesInit ==
    /\ pc = "rules"
    /\ rule_call = NoCall
    /\ df = <<>> /\ airlines = <<>>
    /\ adjacency_list = <<>> /\ city_to_index = <<>> /\ index_to_city = <<>>
    /\ source = "" /\ dest = ""
    /\ result = Unset /\ std = Unset /\ std_full = Unset
    /\ search_airlines = <<>>
    /\ search = NoSearch
    /\ queries = <<>>

\* a call of the rule table touches nothing of a run
RunUntouched ==
    UNCHANGED <<search_airlines, search, queries, df, airlines, adjacency_list, city_to_index, index_to_city,
                source, dest, result, std, std_full>>

CallAirlineServesCity ==
    /\ pc = "rules"
    /\ \E a \in AirlineNames, c \in RuleCities :
        rule_call' = [op |-> "airline_serves_city", names |-> {a}, airline |-> a,
                      city |-> c, ret |-> airline_serves_city_call(a, c)]
    /\ pc' = "called"
    /\ RunUntouched

CallGetHub ==
    /\ pc = "rules"
    /\ \E a \in AirlineNames :
        rule_call' = [op |-> "get_hub", names |-> {a}, airline |-> a,
                      ret |-> get_hub_call(a)]
    /\ pc' = "called"
    /\ RunUntouched

CallGetHubsForAirlines ==
    /\ pc = "rules"
    /\ \E l \in AirlineLists :
        rule_call' = [op |-> "get_hubs_for_airlines",
                      names |-> {l[k] : k \in 1..Len(l)}, airlines |-> l,
                      ret |-> get_hubs_for_airlines(l)]
    /\ pc' = "called"
    /\ RunUntouched

CallIsHub ==
    /\ pc = "rules"
    /\ \E l \in AirlineLists, c \in RouteCities :
        rule_call' = [op |-> "is_hub", names |-> {l[k] : k \in 1..Len(l)},
                      airlines |-> l, city |-> c, ret |-> is_hub(c, l)]
    /\ pc' = "called"
    /\ RunUntouched

CallOperatesRoute ==
    /\ pc = "rules"
    /\ \E a \in AirlineNames, o \in RouteCities, t \in RouteCities,
          cs \in {RouteCities, {"Doha", "London"}} :
        rule_call' = [op |-> "operates_route", names |-> {a}, airline |-> a,
                      origin |-> o, dest |-> t, cities |-> cs,
                      ret |-> operates_route(a, o, t, cs)]
    /\ pc' = "called"
    /\ RunUntouched

CallGetRouteAirline ==
    /\ pc = "rules"
    /\ \E o \in RouteCities, t \in RouteCities, l \in AirlineLists :
        rule_call' = [op |-> "get_route_airline", names |-> {l[k] : k \in 1..Len(l)},
                      airlines |-> l, origin |-> o, dest |-> t,
                      ret |-> get_route_airline(o, t, l, Hubs)]
    /\ pc' = "called"
    /\ RunUntouched

RulesNext ==
    \/ CallAirlineServesCity
    \/ CallGetHub
    \/ CallGetHubsForAirlines
    \/ CallIsHub
    \/ CallOperatesRoute
    \/ CallGetRouteAirline

RulesSpec == RulesInit /\ [][RulesNext]_vars

(***************************************************************************)
(* Vocabulary of the properties.                                           *)
(***************************************************************************)
\* every edge weight of the graph is a number >= 0
NonNegativeGraph(adj) ==
    \A i \in DOMAIN adj : \A k \in 1..Len(adj[i]) :
        IsFin(adj[i][k][2]) /\ adj[i][k][2][2] >= 0

\* every distance cell of the dataset is >= 0 (not-a-number is not)
NonNegativeDataset(d) ==
    \A r \in 1..Len(d) :
        \A col \in {"Distance to Doha", "Distance to Dubai", "Distance to Abu Dhabi"} :
            d[r][col] = Inf \/ (IsFin(d[r][col]) /\ d[r][col][2] >= 0)

\* the least float of a non-empty set without NaN
FMin(S) == CHOOSE x \in S : \A y \in S : ~FLt(y, x)

\* the edges into node v, as pairs (node they leave, weight)
Incoming(adj, v) ==
    UNION {{<<u, adj[u][j][2]>> : j \in {j \in 1..Len(adj[u]) : adj[u][j][1] = v}} :
              u \in DOMAIN adj}

RECURSIVE PathMin(_, _, _)
\* PathMin(adj, src, k)[v]: the least sum of edge weights over the paths from
\* src to v of at most k edges, Inf when there is none
PathMin(adj, src, k) ==
    IF k = 0 THEN [v \in DOMAIN adj |-> IF v = src THEN Fin(0) ELSE Inf]
    ELSE LET p == PathMin(adj, src, k - 1)
         IN  [v \in DOMAIN adj |->
                 FMin({p[v]} \cup {FAdd(p[e[1]], e[2]) : e \in Incoming(adj, v)})]

\* with weights >= 0 a shortest path repeats no node: n - 1 edges are enough
ShortestDistance(adj, src, dst) == PathMin(adj, src, Cardinality(DOMAIN adj) - 1)[dst]

RECURSIVE ReachableFrom(_, _, _)
\* the nodes that paths of at most k graph edges reach from the nodes of S
ReachableFrom(adj, S, k) ==
    IF k = 0 THEN S
    ELSE ReachableFrom(adj,
             S \cup UNION {{adj[u][j][1] : j \in 1..Len(adj[u])} : u \in S}, k - 1)

\* some path of graph edges leads from node src to node dst
Connected(adj, src, dst) == dst \in ReachableFrom(adj, {src}, Cardinality(DOMAIN adj))

(***************************************************************************)
(* C1: on a graph whose weights are all >= 0 the distance                  *)
(* dijkstra_airline_aware returns is the least sum of edge weights over    *)
(* all paths from source to dest.                                          *)
(***************************************************************************)
C1_AwareDistanceIsMinimum ==
    (pc = "aware_done" /\ result.tag = "ok" /\ NonNegativeGraph(adjacency_list))
        => result.km = ShortestDistance(adjacency_list, city_to_index[source],
                                        city_to_index[dest])

\* a shortest route of three legs that beats a shorter-looking direct one
C1_Witness ==
    /\ pc = "aware_done" /\ result.tag = "ok" /\ NonNegativeGraph(adjacency_list)
    /\ Len(result.segments) = 3
    /\ result.km = ShortestDistance(adjacency_list, city_to_index[source],
                                    city_to_index[dest])

\* the searches on graphs with weights >= 0 leave their loop within MaxIter
IterationsSuffice ==
    /\ (pc = "aware_done" /\ NonNegativeGraph(adjacency_list)) => result.tag # "running"
    /\ (pc = "standard_done" /\ NonNegativeGraph(adjacency_list)) => std.tag # "running"

(***************************************************************************)
(* C2: both searches return None exactly when source or dest is not a key  *)
(* of city_to_index or no path of graph edges connects them, and return a  *)
(* result in every other case.                                             *)
(***************************************************************************)
Known(name) == name \in DOMAIN city_to_index

NoRoute ==
    \/ ~Known(source)
    \/ ~Known(dest)
    \/ ~Connected(adjacency_list, city_to_index[source], city_to_index[dest])

C2_NoneExactlyWhenNoRoute ==
    /\ pc = "aware_done" =>
        /\ result.tag \in {"None", "ok"}
        /\ (result = None) <=> NoRoute
    /\ pc = "standard_done" =>
        /\ std.tag \in {"None", "ok"}
        /\ (std = None) <=> NoRoute

(***************************************************************************)
(* C3: the weights of the graph edges the legs of a result traversed (the  *)
(* edge between the leg's cities that carries the leg's airline) add up to *)
(* the total distance of the result.                                       *)
(***************************************************************************)
\* the weights of the edges from seg[1] to seg[2] labelled seg[3]
LegWeights(seg) ==
    LET u == city_to_index[seg[1]]
        v == city_to_index[seg[2]]
    IN  {adjacency_list[u][j][2] :
            j \in {j \in 1..Len(adjacency_list[u]) :
                      adjacency_list[u][j][1] = v /\ adjacency_list[u][j][3] = seg[3]}}

RECURSIVE SumLegs(_, _)
\* the sum of the weights of the first k legs, added in order
SumLegs(segments, k) ==
    IF k = 0 THEN Fin(0)
    ELSE FAdd(SumLegs(segments, k - 1), CHOOSE w \in LegWeights(segments[k]) : TRUE)

C3_LegWeightsSumToTotal ==
    (pc = "aware_done" /\ result.tag = "ok") =>
        /\ \A k \in 1..Len(result.segments) :
               Cardinality(LegWeights(result.segments[k])) = 1
        /\ SumLegs(result.segments, Len(result.segments)) = result.km

\* a route of several legs one of which runs between two hubs, where the
\* two airlines' edges have different weights
C3_Witness ==
    /\ pc = "aware_done" /\ result.tag = "ok"
    /\ Len(result.segments) >= 2
    /\ \E k \in 1..Len(result.segments) :
        LET seg == result.segments[k]
        IN  /\ seg[1] \in Hubs /\ seg[2] \in Hubs
            /\ \E a \in SUPPORTED_AIRLINES :
                /\ LegWeights(<<seg[1], seg[2], a>>) # {}
                /\ LegWeights(<<seg[1], seg[2], a>>) # LegWeights(seg)
    /\ SumLegs(result.segments, Len(result.segments)) = result.km

(***************************************************************************)
(* C4: a result's city sequence is not empty, starts at the requested      *)
(* source and ends at the requested destination; leg k of an airline-aware *)
(* result is the pair (city k, city k+1).                                  *)
(***************************************************************************)
PathFromTo(r) ==
    /\ Len(r.path) >= 1
    /\ r.path[1] = source
    /\ r.path[Len(r.path)] = dest

C4_PathEndsAndLegs ==
    /\ (pc = "aware_done" /\ result.tag = "ok") =>
        /\ PathFromTo(result)
        /\ Len(result.segments) = Len(result.path) - 1
        /\ \A k \in 1..Len(result.segments) :
            /\ result.segments[k][1] = result.path[k]
            /\ result.segments[k][2] = result.path[k + 1]
    /\ (pc = "standard_done" /\ std.tag = "ok") => PathFromTo(std)

\* an airline-aware result of at least two legs between different cities
C4_Witness ==
    /\ pc = "aware_done" /\ result.tag = "ok"
    /\ source # dest
    /\ Len(result.path) >= 3
    /\ PathFromTo(result)
    /\ \A k \in 1..Len(result.segments) :
        /\ result.segments[k][1] = result.path[k]
        /\ result.segments[k][2] = result.path[k + 1]

(***************************************************************************)
(* C5: a search from a city of the graph to itself returns distance zero,  *)
(* the path [source] and no leg, also when the city has no edge.           *)
(***************************************************************************)
C5_SourceIsDest ==
    /\ (pc = "aware_done" /\ source = dest /\ Known(source)) =>
        result = [tag |-> "ok", km |-> Fin(0), path |-> <<source>>, segments |-> <<>>]
    /\ (pc = "standard_done" /\ source = dest /\ Known(source)) =>
        std = [tag |-> "ok", km |-> Fin(0), path |-> <<source>>]

\* the trivial result for a city without any edge
C5_Witness ==
    /\ pc = "aware_done" /\ source = dest /\ Known(source)
    /\ adjacency_list[city_to_index[source]] = <<>>
    /\ result.tag = "ok" /\ result.km = Fin(0) /\ result.segments = <<>>

(***************************************************************************)
(* C6: on a dataset with distances >= 0, when the airline-aware search on  *)
(* the graph of a selection succeeds, the search on the graph of all three *)
(* airlines succeeds too and its distance is not larger.                   *)
(***************************************************************************)
C6_FullSetNotLonger ==
    (pc = "compared" /\ NonNegativeDataset(df)) =>
        /\ std_full.tag = "ok"
        /\ ~FLt(result.km, std_full.km)
        /\ IsFin(result.km) /\ IsFin(std_full.km)

\* a selection whose best route is strictly longer than the best of all airlines
C6_Witness ==
    /\ pc = "compared" /\ NonNegativeDataset(df)
    /\ result.tag = "ok" /\ std_full.tag = "ok"
    /\ FLt(std_full.km, result.km)

(***************************************************************************)
(* C7: an edge labelled A between A's hub H and a non-hub city C exists    *)
(* if and only if A is requested, A serves C and H and C are rows of the   *)
(* dataset; a requested airline whose hub is not in the dataset            *)
(* contributes no edge and raises no error.                                *)
(***************************************************************************)
Requested == {airlines[k] : k \in 1..Len(airlines)}

\* the exclusion rule: airline a serves the non-hub city c
Serves(a, c) == c \notin AIRLINE_EXCLUDED_CITIES[a]

NamesOf(d) == {d[i].City : i \in 1..Len(d)}

\* the airline labels of the edges from the node of city a to the node of city b
LabelsBetween(a, b) ==
    IF a \notin DOMAIN city_to_index \/ b \notin DOMAIN city_to_index THEN {}
    ELSE {adjacency_list[city_to_index[a]][j][3] :
            j \in {j \in 1..Len(adjacency_list[city_to_index[a]]) :
                      adjacency_list[city_to_index[a]][j][1] = city_to_index[b]}}

\* the airline labels of all edges of the graph
AllLabels ==
    UNION {{adjacency_list[i][j][3] : j \in 1..Len(adjacency_list[i])} :
              i \in DOMAIN adjacency_list}

\* the dataset's distance-to-hub cell for the city named c
HubCell(d, hub, c) == FirstRow(d, c)["Distance to " \o hub]

NoEdgeWithoutHub ==
    \A a \in Requested : AIRLINE_HUBS[a] \notin NamesOf(df) => a \notin AllLabels

C7_EdgeExistence ==
    pc = "built" =>
        /\ \A a \in SUPPORTED_AIRLINES : \A c \in NamesOf(df) \ Hubs :
            (a \in LabelsBetween(AIRLINE_HUBS[a], c))
                <=> (/\ a \in Requested
                     /\ Serves(a, c)
                     /\ AIRLINE_HUBS[a] \in NamesOf(df))
        /\ NoEdgeWithoutHub

\* the same with the condition the builder adds: the distance cell is not inf
C7_EdgeExistenceFiniteDistance ==
    /\ pc = "built" =>
        /\ \A a \in SUPPORTED_AIRLINES : \A c \in NamesOf(df) \ Hubs :
            (a \in LabelsBetween(AIRLINE_HUBS[a], c))
                <=> (/\ a \in Requested
                     /\ Serves(a, c)
                     /\ AIRLINE_HUBS[a] \in NamesOf(df)
                     /\ HubCell(df, AIRLINE_HUBS[a], c) # Inf)
        /\ NoEdgeWithoutHub
    /\ pc = "raised" => Requested \ SUPPORTED_AIRLINES # {}

\* a graph with an edge to a served city, none to a city the airline excludes,
\* none for an infinite distance, and a requested airline without its hub
C7_Witness ==
    /\ pc = "built"
    /\ \E a \in Requested : AIRLINE_HUBS[a] \notin NamesOf(df)
    /\ \E a \in Requested : \E c, x \in NamesOf(df) \ Hubs :
        /\ a \in LabelsBetween(AIRLINE_HUBS[a], c)
        /\ AIRLINE_HUBS[a] \in NamesOf(df)
        /\ (~Serves(a, x) \/ HubCell(df, AIRLINE_HUBS[a], x) = Inf)
        /\ a \notin LabelsBetween(AIRLINE_HUBS[a], x)

(***************************************************************************)
(* C8: no edge of the graph connects two distinct non-hub cities.          *)
(***************************************************************************)
C8_NoEdgeBetweenNonHubs ==
    pc = "built" =>
        \A i \in DOMAIN adjacency_list : \A j \in 1..Len(adjacency_list[i]) :
            \/ index_to_city[i] \in Hubs
            \/ index_to_city[adjacency_list[i][j][1]] \in Hubs

\* a graph over two non-hub cities that both have edges
C8_Witness ==
    /\ pc = "built"
    /\ \E i, k \in DOMAIN adjacency_list :
        /\ i # k
        /\ index_to_city[i] \notin Hubs /\ index_to_city[k] \notin Hubs
        /\ adjacency_list[i] # <<>> /\ adjacency_list[k] # <<>>

(***************************************************************************)
(* C9: the weight of every edge is the dataset's distance-to-hub cell, for *)
(* the hub of the edge's airline, in the row of the edge's other endpoint. *)
(***************************************************************************)
C9_WeightIsRowCell ==
    pc = "built" =>
        \A i \in DOMAIN adjacency_list : \A j \in 1..Len(adjacency_list[i]) :
            LET e == adjacency_list[i][j]
                hub == AIRLINE_HUBS[e[3]]
                other == IF index_to_city[i] = hub THEN e[1] ELSE i
            IN  e[2] = df[other + 1]["Distance to " \o hub]

(***************************************************************************)
(* C10: the graph is symmetric: (j, w, A) is in the list of node i as      *)
(* often as (i, w, A) is in the list of node j.                            *)
(***************************************************************************)
Count(seq, x) == Cardinality({j \in 1..Len(seq) : seq[j] = x})

C10_Symmetric ==
    pc = "built" =>
        \A i \in DOMAIN adjacency_list : \A j \in 1..Len(adjacency_list[i]) :
            LET e == adjacency_list[i][j]
            IN  Count(adjacency_list[i], e) = Count(adjacency_list[e[1]], <<i, e[2], e[3]>>)

\* a graph with an edge that is there twice, and two parallel edges between
\* hubs with different weights
C10_Witness ==
    /\ pc = "built"
    /\ \E i \in DOMAIN adjacency_list : \E j, k \in 1..Len(adjacency_list[i]) :
        /\ Count(adjacency_list[i], adjacency_list[i][j]) = 2
        /\ Count(adjacency_list[adjacency_list[i][j][1]],
                 <<i, adjacency_list[i][j][2], adjacency_list[i][j][3]>>) = 2
    /\ \E i \in DOMAIN adjacency_list : \E j, k \in 1..Len(adjacency_list[i]) :
        /\ adjacency_list[i][j][1] = adjacency_list[i][k][1]
        /\ adjacency_list[i][j][2] # adjacency_list[i][k][2]

(***************************************************************************)
(* C11: build_graph called with a list that holds a name outside the three *)
(* supported airlines raises, wherever the name sits in the list: no       *)
(* mapping and no edge is built, no graph is returned and the dataset is   *)
(* left as it was; it raises for no other list.                            *)
(***************************************************************************)
C11_BadNameRaises ==
    [][(pc = "loaded" /\ pc' # "loaded") =>
          /\ df' = df
          /\ (pc' = "raised") <=> (\E k \in 1..Len(airlines') :
                                     airlines'[k] \notin SUPPORTED_AIRLINES)
          /\ pc' = "raised" =>
                /\ adjacency_list' = adjacency_list
                /\ city_to_index' = city_to_index
                /\ index_to_city' = index_to_city]_vars

\* the error for a list whose last name is the bad one, after an airline whose
\* hub and a city it serves are in the dataset
C11_Witness ==
    /\ pc = "raised"
    /\ Len(airlines) >= 2
    /\ airlines[Len(airlines)] \notin SUPPORTED_AIRLINES
    /\ airlines[1] \in SUPPORTED_AIRLINES
    /\ AIRLINE_HUBS[airlines[1]] \in NamesOf(df)
    /\ \E c \in NamesOf(df) \ Hubs : Serves(airlines[1], c)
    /\ adjacency_list = <<>> /\ city_to_index = <<>> /\ index_to_city = <<>>

(***************************************************************************)
(* C12: city_to_index is a bijection between the city names of the cleaned *)
(* dataset and the indices 0..n-1, index_to_city is its inverse and the    *)
(* adjacency list has n entries.                                           *)
(***************************************************************************)
C12_IndexBijection ==
    pc = "built" =>
        LET n == Len(df)
        IN  /\ DOMAIN city_to_index = NamesOf(df)
            /\ {city_to_index[c] : c \in DOMAIN city_to_index} = 0..(n - 1)
            /\ \A c, e \in DOMAIN city_to_index :
                   city_to_index[c] = city_to_index[e] => c = e
            /\ DOMAIN index_to_city = 0..(n - 1)
            /\ \A i \in 0..(n - 1) : city_to_index[index_to_city[i]] = i
            /\ \A c \in DOMAIN city_to_index : index_to_city[city_to_index[c]] = c
            /\ DOMAIN adjacency_list = 0..(n - 1)

(***************************************************************************)
(* C13: for each of the three airlines A and every city c,                 *)
(* airline_serves_city(A, c) is true when c is A's hub, false when c is in *)
(* A's exclusion set, and true for every other city.                       *)
(***************************************************************************)
C13_ServesRule ==
    (rule_call.op = "airline_serves_city" /\ rule_call.airline \in SUPPORTED_AIRLINES) =>
        LET a == rule_call.airline
            c == rule_call.city
        IN  /\ ~rule_call.ret.raised
            /\ c = AIRLINE_HUBS[a] => rule_call.ret.value = TRUE
            /\ c \in AIRLINE_EXCLUDED_CITIES[a] => rule_call.ret.value = FALSE
            /\ (c # AIRLINE_HUBS[a] /\ c \notin AIRLINE_EXCLUDED_CITIES[a])
                   => rule_call.ret.value = TRUE

\* a city one airline excludes and the airline of the call serves
C13_Witness ==
    /\ rule_call.op = "airline_serves_city"
    /\ rule_call.airline \in SUPPORTED_AIRLINES
    /\ rule_call.city \notin Hubs
    /\ rule_call.city \notin AIRLINE_EXCLUDED_CITIES[rule_call.airline]
    /\ \E b \in SUPPORTED_AIRLINES : rule_call.city \in AIRLINE_EXCLUDED_CITIES[b]
    /\ rule_call.ret = Returned(TRUE)

(***************************************************************************)
(* C14: a call of a rule-table function that is given an airline name      *)
(* outside the three supported ones raises: it never returns a value.      *)
(***************************************************************************)
C14_UnknownAirlineRaises ==
    (rule_call.op # "none" /\ rule_call.names \ SUPPORTED_AIRLINES # {})
        => rule_call.ret.raised

(***************************************************************************)
(* C15: the exclusion sets of the three airlines are pairwise disjoint: no *)
(* city a call asks about is in the exclusion set of two airlines.         *)
(***************************************************************************)
C15_ExclusionsDisjoint ==
    rule_call.op = "airline_serves_city" =>
        \A a, b \in SUPPORTED_AIRLINES :
            a # b => ~(/\ rule_call.city \in AIRLINE_EXCLUDED_CITIES[a]
                       /\ rule_call.city \in AIRLINE_EXCLUDED_CITIES[b])

\* the exclusion sets are pairwise different sets: of two airlines, one
\* excludes a city the other does not, and the calls answer accordingly
C15_ExclusionsDistinct ==
    /\ \A a, b \in SUPPORTED_AIRLINES :
           a # b => AIRLINE_EXCLUDED_CITIES[a] # AIRLINE_EXCLUDED_CITIES[b]
    /\ rule_call.op = "airline_serves_city" =>
           \A b \in SUPPORTED_AIRLINES \ {rule_call.airline} :
               \E c \in RuleCities \ Hubs :
                   (c \in AIRLINE_EXCLUDED_CITIES[b])
                       # (airline_serves_city(rule_call.airline, c) = FALSE)

\* a call that refuses a city which another airline does not exclude
C15_Witness ==
    /\ rule_call.op = "airline_serves_city"
    /\ rule_call.airline \in SUPPORTED_AIRLINES
    /\ rule_call.ret = Returned(FALSE)
    /\ \E b \in SUPPORTED_AIRLINES : rule_call.city \notin AIRLINE_EXCLUDED_CITIES[b]

(***************************************************************************)
(* C16: every leg of a result of dijkstra_airline_aware carries an airline *)
(* (never None) that labels an edge of the graph between the leg's two     *)
(* cities, one of which is that airline's hub.                             *)
(***************************************************************************)
C16_LegLabelIsEdgeLabel ==
    (pc = "aware_done" /\ result.tag = "ok") =>
        \A k \in 1..Len(result.segments) :
            LET seg == result.segments[k]
            IN  /\ Len(seg) = 3
                /\ seg[3] \in SUPPORTED_AIRLINES
                /\ seg[3] \in LabelsBetween(seg[1], seg[2])
                /\ seg[3] \in LabelsBetween(seg[2], seg[1])
                /\ AIRLINE_HUBS[seg[3]] \in {seg[1], seg[2]}

\* a route with a leg between two hubs that two airlines fly, and a leg whose
\* airline is not the one that flew the leg before
C16_Witness ==
    /\ pc = "aware_done" /\ result.tag = "ok"
    /\ \E k \in 1..Len(result.segments) :
        /\ Cardinality(LabelsBetween(result.segments[k][1], result.segments[k][2])) = 2
        /\ result.segments[k][3] \in LabelsBetween(result.segments[k][1], result.segments[k][2])
    /\ \E k \in 2..Len(result.segments) : result.segments[k][3] # result.segments[k - 1][3]

(***************************************************************************)
(* C17: every leg of the result of dijkstra_airline_aware(graph, source,   *)
(* dest, airlines) is labelled with an airline of the airlines argument,   *)
(* for every graph, also one built with a larger airline selection.        *)
(***************************************************************************)
SearchAirlines == {search_airlines[k] : k \in 1..Len(search_airlines)}

LegLabels(r) == {r.segments[k][3] : k \in 1..Len(r.segments)}

C17_LegsWithinArgument ==
    (pc = "aware_done" /\ result.tag = "ok") => LegLabels(result) \subseteq SearchAirlines

\* the same for a graph that build_graph built with airlines of the argument
C17_LegsWithinArgumentOfBuild ==
    (pc = "aware_done" /\ result.tag = "ok" /\ Requested \subseteq SearchAirlines)
        => LegLabels(result) \subseteq SearchAirlines

\* a route over the legs of two airlines, on a graph built with fewer
\* airlines than the search was given
C17_Witness ==
    /\ pc = "aware_done" /\ result.tag = "ok"
    /\ Requested \subseteq SearchAirlines /\ Requested # SearchAirlines
    /\ Cardinality(LegLabels(result)) = 2
    /\ LegLabels(result) \subseteq SearchAirlines

(***************************************************************************)
(* C19: on a graph whose weights are all >= 0 the main loop of each search *)
(* eventually stops and the function returns.                              *)
(***************************************************************************)
C19_SearchReturns ==
    (NonNegativeGraph(adjacency_list) /\ pc \in {"aware_loop", "standard_loop"})
        ~> (pc \in {"aware_done", "standard_done"})

\* a search that returned after more iterations than there are nodes: it
\* popped entries that had gone stale
C19_Witness ==
    /\ NonNegativeGraph(adjacency_list)
    /\ pc \in {"aware_done", "standard_done"}
    /\ search.iters > Cardinality(DOMAIN adjacency_list)

(***************************************************************************)
(* C20: in every state of a search on a graph with weights >= 0 the source *)
(* has no predecessor, every other node with a finite distance has one,    *)
(* and the predecessor links lead from every node with a finite distance   *)
(* to the source without visiting a node twice.                            *)
(***************************************************************************)
Searching == pc \in {"aware_loop", "standard_loop", "aware_walk", "standard_walk",
                     "aware_done", "standard_done"} /\ search # NoSearch

RECURSIVE LinksReach(_, _, _, _)
\* at most k predecessor links lead from v to src
LinksReach(prev, v, src, k) ==
    \/ v = src
    \/ k > 0 /\ prev[v] # NoPrev /\ LinksReach(prev, prev[v][1], src, k - 1)

C20_PredecessorTrace ==
    (Searching /\ NonNegativeGraph(adjacency_list)) =>
        LET src == city_to_index[source]
            n == Cardinality(DOMAIN adjacency_list)
        IN  /\ search.prev[src] = NoPrev
            /\ \A v \in DOMAIN search.dist :
                   (v # src /\ search.dist[v] # Inf) =>
                       /\ search.prev[v] # NoPrev
                       /\ LinksReach(search.prev, v, src, n - 1)

\* a search in its loop in which a node's predecessor has a predecessor and
\* some node has yet to be reached
C20_Witness ==
    /\ pc \in {"aware_loop", "standard_loop"} /\ ~LoopLeft(search)
    /\ NonNegativeGraph(adjacency_list)
    /\ \E v \in DOMAIN search.prev :
           search.prev[v] # NoPrev /\ search.prev[search.prev[v][1]] # NoPrev
    /\ \E v \in DOMAIN search.dist : search.dist[v] = Inf

(***************************************************************************)
(* C18: two queries that share the dataset and build their own graphs can  *)
(* interleave their steps in any order: no step changes the dataset, no    *)
(* step of a search changes a graph, and each query ends as it ends when   *)
(* it runs alone.                                                          *)
(***************************************************************************)
\* how the query ends when nothing else runs: build_graph, then the search
Alone(q) ==
    LET g == build_graph(df, q.airlines)
    IN  IF g.error # "" THEN [tag |-> "raised"]
        ELSE IF q.fn = "aware"
        THEN dijkstra_airline_aware(g.adjacency_list, g.city_to_index, g.index_to_city,
                                    q.source, q.dest, q.airlines)
        ELSE dijkstra_standard(g.adjacency_list, g.city_to_index, g.index_to_city,
                               q.source, q.dest)

\* how the query has ended, if it has
Ended(q) ==
    IF q.pc = "raised" THEN [tag |-> "raised"]
    ELSE IF q.pc = "walk" THEN Hang
    ELSE IF q.pc = "done" THEN q.result
    ELSE Running

C18_QueriesIndependent ==
    [][/\ df' = df
       /\ \A q \in Queries :
            /\ queries[q].pc \in {"built", "loop"} =>
                 /\ queries'[q].adjacency_list = queries[q].adjacency_list
                 /\ queries'[q].city_to_index = queries[q].city_to_index
                 /\ queries'[q].index_to_city = queries[q].index_to_city
            /\ queries'[q].pc \in {"raised", "walk", "done"} =>
                 Ended(queries'[q]) = Alone(queries'[q])]_vars

\* both queries have returned routes of two legs, different ones, found on
\* different graphs over the one dataset
C18_Witness ==
    /\ \A q \in Queries :
        /\ queries[q].pc = "done" /\ queries[q].result.tag = "ok"
        /\ Len(queries[q].result.path) = 3
        /\ queries[q].result = Alone(queries[q])
    /\ queries[1].result.path # queries[2].result.path
    /\ queries[1].adjacency_list # queries[2].adjacency_list

(***************************************************************************)
(* C21: path reconstruction is defensive: on a predecessor array with a    *)
(* cycle, or whose chain from the destination does not end at the source,  *)
(* it terminates and reports a failure; it neither walks forever nor       *)
(* returns a path.                                                         *)
(***************************************************************************)
\* the predecessor links lead from the destination to the source without
\* visiting a node twice
WellFormedTrace ==
    LinksReach(search.prev, city_to_index[dest], city_to_index[source],
               Cardinality(DOMAIN search.prev) - 1)

C21_ReconstructionDefensive ==
    /\ pc \notin {"aware_walk", "standard_walk"}
    /\ (pc = "aware_done" /\ search # NoSearch /\ ~WellFormedTrace) => result.tag # "ok"
    /\ (pc = "standard_done" /\ search # NoSearch /\ ~WellFormedTrace) => std.tag # "ok"

(***************************************************************************)
(* C22: on the same graph, source and dest, dijkstra_standard and          *)
(* dijkstra_airline_aware agree: one returns None exactly when the other   *)
(* does, and otherwise they return the same total distance and the same    *)
(* city sequence; when one does not return, neither does the other.        *)
(***************************************************************************)
C22_SearchesAgree ==
    pc = "both_done" =>
        /\ result.tag = std.tag
        /\ result.tag = "ok" => (result.km = std.km /\ result.path = std.path)

\* both return the same route of two legs, shorter than a direct edge
\* between source and dest
C22_Witness ==
    /\ pc = "both_done" /\ result.tag = "ok" /\ std.tag = "ok"
    /\ Len(std.path) = 3
    /\ result.km = std.km /\ result.path = std.path
    /\ \E w \in LegWeights(<<source, dest, result.segments[2][3]>>) : FLt(result.km, w)

(***************************************************************************)
(* C23: lazy deletion: an iteration that extracts an entry whose distance  *)
(* is greater than the node's best distance only removes the entry, no     *)
(* distance and no predecessor changes; and on a graph with weights >= 0   *)
(* the edges of a node are relaxed at most once in a search.               *)
(***************************************************************************)
\* the step is an iteration of a main loop
IterStep ==
    /\ pc \in {"aware_loop", "standard_loop"}
    /\ search'.iters = search.iters + 1

\* the entry the iteration extracts is stale
StalePop ==
    LET e == heappop(search.heap) IN FGt(e[1], search.dist[e[2]])

C23_LazyDeletion ==
    [][IterStep =>
          /\ StalePop =>
                /\ search'.dist = search.dist
                /\ search'.prev = search.prev
                /\ search'.relaxed = search.relaxed
                /\ search'.heap = search.heap \ {heappop(search.heap)}
                /\ ~search'.brk
          /\ NonNegativeGraph(adjacency_list) =>
                \A u \in DOMAIN search'.relaxed : search'.relaxed[u] <= 1]_vars

\* a search on weights >= 0 that has extracted a stale entry: it has made
\* more iterations than it entered relaxations and left the loop
C23_Witness ==
    /\ pc \in {"aware_loop", "standard_loop"}
    /\ NonNegativeGraph(adjacency_list)
    /\ search.iters > Cardinality({u \in DOMAIN search.relaxed : search.relaxed[u] >= 1})
                          + (IF search.brk THEN 1 ELSE 0)
    /\ \A u \in DOMAIN search.relaxed : search.relaxed[u] <= 1
    /\ \E u \in DOMAIN search.relaxed : search.relaxed[u] = 1

(***************************************************************************)
(* C24: build_graph adds an edge between a hub and a city only when the    *)
(* dataset's distance for the pair is finite and known: every edge weight  *)
(* is a finite number, and a city whose distance-to-hub cell is missing    *)
(* (not-a-number after cleaning) has no edge to that hub.                  *)
(***************************************************************************)
C24_NoEdgeForMissingDistance ==
    pc = "built" =>
        /\ \A i \in DOMAIN adjacency_list : \A j \in 1..Len(adjacency_list[i]) :
               IsFin(adjacency_list[i][j][2])
        /\ \A a \in Requested : \A c \in NamesOf(df) \ {AIRLINE_HUBS[a]} :
               (AIRLINE_HUBS[a] \in NamesOf(df) /\ IsNaN(HubCell(df, AIRLINE_HUBS[a], c)))
                   => a \notin LabelsBetween(AIRLINE_HUBS[a], c)

====
